---- MODULE Spec2Model ----
(***************************************************************************)
(* GCIF: the RGBA pixel decoder (ImageRGBAReader), the LZ match list       *)
(* (LZMatchFinder) and the monochrome sub-engine (MonoWriter).             *)
(*                                                                         *)
(* Each object is one record-valued variable whose fields carry the names  *)
(* of the object's members.  Member functions are operators from an object *)
(* record to the record after the call.                                    *)
(***************************************************************************)
EXTENDS Integers, Sequences, FiniteSets, TLC

VARIABLES
    dec,      \* ImageRGBAReader object of the first decoding run
    decB,     \* ImageRGBAReader object of the second decoding run (two-run checks)
    input,    \* what the decoder is given: mask, header fields, encoder-side image
    stream,   \* symbols the encoder wrote (empty when the stream is arbitrary)
    toggle,   \* two-run checks: scan index of the toggled pixel
    lz,       \* LZMatchFinder object and the position of its scan
    lzin,     \* the pixels and the mask the match finder scans
    mono,     \* MonoWriter object of the first encoding run
    monoB     \* MonoWriter object of the second encoding run, same Parameters

decVars == <<dec, decB, input, stream, toggle>>
lzVars == <<lz, lzin>>
monoVars == <<mono, monoB>>
vars == <<dec, decB, input, stream, toggle, lz, lzin, mono, monoB>>

\* the variables of the other objects, idle while one object runs
notDecVars == <<lz, lzin, mono, monoB>>
notLzVars == <<dec, decB, input, stream, toggle, mono, monoB>>
notMonoVars == <<dec, decB, input, stream, toggle, lz, lzin>>

Idle == [pc |-> "idle"]

DecIdle == dec = Idle /\ decB = Idle /\ input = Idle /\ stream = <<>> /\ toggle = -1
LzIdle == lz = Idle /\ lzin = Idle
MonoIdle == mono = Idle /\ monoB = Idle

-----------------------------------------------------------------------------
(* Bounds of the model                                                     *)

\* most unmasked pixels of an input image
MaxLive == 3
\* most pixels of an input image
MaxPixels == 6
\* most pixels of a short input of the match finder
MaxScan == 6
\* candidates tried per position (the hash chain walk is cut off)
ChainLimit == 2

-----------------------------------------------------------------------------
(* Program constants                                                       *)

NUM_COLORS == 256
NUM_LIT_SYMS == NUM_COLORS
MAX_FILTERS == 32
\* tile edge is 1 << TILE_BITS
TILE_BITS == 1
\* colour filters in the catalog YUV2RGB_FILTERS
CF_COUNT == 2
\* spatial filters in the catalog
SPATIAL_COUNT == 3
\* function pointer values: null, and a pointer that is not a catalog entry
NullFn == -1
BadFn == -2

U8(v) == v % 256

Min(a, b) == IF a < b THEN a ELSE b

-----------------------------------------------------------------------------
(* Filter catalog                                                          *)

\* Inverse colour filter: YUV -> RGB residual.  0 keeps the channels,
\* 1 is the G-B / R-G style transform (Y = B, U = G - B, V = G - R).
YUV2RGB(cf, YUV) ==
    IF cf = 0 THEN <<YUV[1], YUV[2], YUV[3]>>
    ELSE LET B == YUV[1]
             G == U8(YUV[2] + B)
             R == U8(G - YUV[3] + 256)
         IN <<R, G, B>>

\* Forward colour filter, the encoder's side of YUV2RGB
RGB2YUV(cf, RGB) ==
    IF cf = 0 THEN <<RGB[1], RGB[2], RGB[3]>>
    ELSE <<RGB[3], U8(RGB[2] - RGB[3] + 256), U8(RGB[2] - RGB[1] + 256)>>

Zero3 == <<0, 0, 0>>

RGBOf(px) == <<px[1], px[2], px[3]>>

\* Spatial prediction with coordinates clamped at the image edges.
\* 0 predicts zero, 1 the left pixel (A), 2 the pixel above (B).
SFSafe(sf, rgba, x, y, xsize) ==
    LET i == x + y * xsize
        left == IF x > 0 THEN RGBOf(rgba[i - 1])
                ELSE IF y > 0 THEN RGBOf(rgba[i - xsize]) ELSE Zero3
        up == IF y > 0 THEN RGBOf(rgba[i - xsize])
              ELSE IF x > 0 THEN RGBOf(rgba[i - 1]) ELSE Zero3
    IN IF sf = 0 THEN Zero3 ELSE IF sf = 1 THEN left ELSE up

\* Spatial prediction without bounds checks (interior pixels only)
SFUnsafe(sf, rgba, x, y, xsize) ==
    LET i == x + y * xsize
    IN IF sf = 0 THEN Zero3
       ELSE IF sf = 1 THEN RGBOf(rgba[i - 1]) ELSE RGBOf(rgba[i - xsize])

-----------------------------------------------------------------------------
(* RGBChaos: per channel, last[x] holds the score of the residual stored   *)
(* at column x (row y-1 until column x of row y is stored).                *)

ChaosScore(r) == Min(15, IF r < 128 THEN r ELSE 256 - r)

CHAOS_MAP(levels, sum) == Min(sum, levels - 1)

\* RGBChaos::get, the chaos bin of each channel for column x
ChaosGet(chaos, x) ==
    LET left == IF x > 0 THEN chaos.last[x - 1] ELSE Zero3
        up == chaos.last[x]
    IN [c \in 1..3 |-> CHAOS_MAP(chaos.levels, left[c] + up[c])]

\* RGBChaos::store, remember the residual just decoded at column x
ChaosStore(chaos, x, YUV) ==
    [chaos EXCEPT !.last[x] = [c \in 1..3 |-> ChaosScore(YUV[c])]]

\* RGBChaos::zero, a masked column contributes no chaos
ChaosZero(chaos, x) ==
    [chaos EXCEPT !.last[x] = Zero3]

-----------------------------------------------------------------------------
(* Stream reads.  g holds what a read returns when the stream is arbitrary *)
(* or when the symbol at the read position was written for another         *)
(* decoder (the bits then decode to some symbol of the reading alphabet).  *)

\* EntropyDecoder::next / MonoReader::read, the k-th read from d.rpos
Fetch(d, k, kind, bin, g) ==
    IF input.source # "encoder" THEN g[kind]
    ELSE IF d.rpos + k > Len(stream) THEN g[kind]
    ELSE LET t == stream[d.rpos + k]
         IN IF t.kind = kind /\ t.bin = bin THEN t.v ELSE g[kind]

\* the reader ran past the end of the stream in n reads
PastEnd(d, n) ==
    input.source = "encoder" /\ d.rpos + n > Len(stream)

\* _sf[i]: the active spatial filters are catalog entries 0 .. _sf_count-1;
\* any other slot holds no catalog function
SfSlot(d, i, g) == IF i < d._sf_count THEN i ELSE g.fn

\* YUV2RGB_FILTERS[i]
CfSlot(i, g) == IF i < CF_COUNT THEN i ELSE g.fn

\* FilterSelection::ready
Ready(filter) == filter.cf # NullFn

\* ImageRGBAReader::readFilter, reading at stream offsets k+1 and k+2
readFilter(d, x, y, k, g) ==
    LET tx == x \div (2 ^ TILE_BITS)
        filter == d._filters[tx]
        cfid == Fetch(d, k + 1, "CF", 0, g)
        sfid == Fetch(d, k + 2, "SF", 0, g)
    IN IF Ready(filter)
       THEN [filter |-> filter, reads |-> <<>>, ids |-> <<>>]
       ELSE [filter |-> [cf |-> CfSlot(cfid, g), sf |-> SfSlot(d, sfid, g)],
             reads |-> <<"CF", "SF">>,
             ids |-> <<cfid, sfid>>]

\* the pixel lands one place before the output cursor
StorePixel_Before(d, i, p) ==
    LET j == IF i > 0 THEN i - 1 ELSE i
    IN [d EXCEPT !._rgba[j] = p, !.written = d.written \cup {j}]

\* p[0..3] = ..., the decoded pixel written at the output cursor
StorePixel(d, i, p) ==
    [d EXCEPT !._rgba[i] = p, !.written = d.written \cup {i}]

\* body shared by readSafe and readUnsafe; safe selects the clamped filter
readPixel(d, x, y, g, safe) ==
    LET i == x + y * d._xsize
        bins == ChaosGet(d._chaos, x)
        pixel_code == Fetch(d, 1, "Y", bins[1], g)
    IN IF pixel_code >= 256
       THEN \* LZ escape: the branch is empty
            [d EXCEPT !.rpos = d.rpos + 1,
                      !.eof = d.eof \/ PastEnd(d, 1),
                      !.trace = [pos |-> i, mode |-> "lz", reads |-> <<"Y">>,
                                 ids |-> <<>>, bins |-> bins,
                                 code |-> pixel_code]]
       ELSE LET YUV == <<pixel_code, Fetch(d, 2, "U", bins[2], g),
                         Fetch(d, 3, "V", bins[3], g)>>
                rf == readFilter(d, x, y, 3, g)
                filter == rf.filter
                nf == Len(rf.reads)
                called == filter.cf >= 0 /\ filter.sf >= 0
                rgb == IF filter.cf >= 0 THEN YUV2RGB(filter.cf, YUV) ELSE Zero3
                pred == IF ~called THEN Zero3
                        ELSE IF safe THEN SFSafe(filter.sf, d._rgba, x, y, d._xsize)
                        ELSE SFUnsafe(filter.sf, d._rgba, x, y, d._xsize)
                a == Fetch(d, 3 + nf + 1, "A", 0, g)
                p == IF called
                     THEN <<U8(rgb[1] + pred[1]), U8(rgb[2] + pred[2]),
                            U8(rgb[3] + pred[3]), U8(255 - a)>>
                     ELSE <<g.px, g.px, g.px, U8(255 - a)>>
                tx == x \div (2 ^ TILE_BITS)
                tr == [pos |-> i, mode |-> "yuva",
                       reads |-> <<"Y", "U", "V">> \o rf.reads \o <<"A">>,
                       ids |-> rf.ids, bins |-> bins, code |-> pixel_code]
                \* a call through a pointer that is no catalog function
                \* either stops the program or leaves some bytes in p
                stops == ~called /\ (g.ub = "crash" \/ filter.cf = NullFn
                                     \/ filter.sf = NullFn)
            IN IF stops
               THEN [d EXCEPT !._filters[tx] = filter,
                              !.rpos = d.rpos + 3 + nf,
                              !.pc = "crash",
                              !.trace = [tr EXCEPT !.mode = "crash", !.reads =
                                            <<"Y", "U", "V">> \o rf.reads]]
               ELSE [StorePixel(d, i, p) EXCEPT
                              !._filters[tx] = filter,
                              !._chaos = ChaosStore(d._chaos, x, YUV),
                              !.rpos = d.rpos + 4 + nf,
                              !.eof = d.eof \/ PastEnd(d, 4 + nf),
                              !.trace = tr]

\* ImageRGBAReader::readSafe
readSafe(d, x, y, g) == readPixel(d, x, y, g, TRUE)

\* ImageRGBAReader::readUnsafe
readUnsafe(d, x, y, g) == readPixel(d, x, y, g, FALSE)

-----------------------------------------------------------------------------
(* ImageRGBAReader::readPixels: the scan over the pixels, row-major        *)

TileSize == 2 ^ TILE_BITS

NoTrace == [pos |-> -1, mode |-> "none", reads |-> <<>>, ids |-> <<>>,
            bins |-> Zero3, code |-> 0]

NullFilter == [cf |-> NullFn, sf |-> NullFn]

\* the colour every masked pixel decodes to
MaskColor == <<0, 0, 0, 0>>

\* the reader after readFilterTables and readRGBATables
NewReader(in) ==
    LET tiles_x == (in.xsize + TileSize - 1) \div TileSize
    IN [_xsize |-> in.xsize, _ysize |-> in.ysize, _tiles_x |-> tiles_x,
        _sf_count |-> in.sf_count,
        _rgba |-> [i \in 0..(in.xsize * in.ysize - 1) |->
                      <<in.fill, in.fill, in.fill, in.fill>>],
        _filters |-> [tx \in 0..(tiles_x - 1) |-> NullFilter],
        _chaos |-> [levels |-> in.levels,
                    last |-> [x \in 0..(in.xsize - 1) |-> Zero3]],
        x |-> 0, y |-> 0, pc |-> "pixels", rpos |-> 0, eof |-> FALSE,
        written |-> {}, trace |-> NoTrace]

\* index of the pixel the scan is at
Cur(d) == d.x + d.y * d._xsize

\* a new row of tiles starts with no filter read
RowStart(d) ==
    IF d.x = 0 /\ d.y % TileSize = 0
    THEN [d EXCEPT !._filters = [tx \in DOMAIN d._filters |-> NullFilter]]
    ELSE d

\* masked pixel: the mask's colour, nothing read
readMasked(d) ==
    [d EXCEPT !._rgba[Cur(d)] = MaskColor,
              !.written = d.written \cup {Cur(d)},
              !._chaos = ChaosZero(d._chaos, d.x),
              !.trace = [NoTrace EXCEPT !.pos = Cur(d), !.mode = "mask"]]

\* step to the next pixel; after the last one the read succeeds unless the
\* reader ran out of input
Advance(d) ==
    IF d.pc # "pixels" THEN d
    ELSE IF d.x + 1 < d._xsize THEN [d EXCEPT !.x = d.x + 1]
    ELSE IF d.y + 1 < d._ysize THEN [d EXCEPT !.x = 0, !.y = d.y + 1]
    ELSE [d EXCEPT !.pc = IF d.eof THEN "fail" ELSE "done"]

\* interior pixels take the unchecked filter variants
Interior(d) == d.y > 0 /\ d.x > 0 /\ d.x < d._xsize - 1

-----------------------------------------------------------------------------
(* Inputs                                                                  *)

YSyms == {0, 1, 256}
USyms == {2}
VSyms == {0}
ASyms == {0}
CfIds == {0, 1, CF_COUNT}
SfIds == {0, 1, 2}

\* what the reads of one pixel can return
Reads(d) ==
    LET fresh == ~Ready(RowStart(d)._filters[d.x \div TileSize])
        any == input.source = "arbitrary"
        pair == input.source = "pair"
    IN [Y : IF any \/ pair THEN YSyms ELSE {1, 256},
        U : USyms, V : VSyms, A : ASyms,
        CF : IF ~fresh THEN {0} ELSE IF any THEN CfIds
             ELSE IF pair THEN 0..(CF_COUNT - 1) ELSE {0, CF_COUNT},
        SF : IF ~fresh THEN {0} ELSE IF any THEN SfIds
             ELSE IF pair THEN 0..(d._sf_count - 1) ELSE {0},
        fn : IF ~fresh \/ pair THEN {0} ELSE IF any THEN {NullFn, BadFn, 0}
             ELSE {BadFn},
        px : {7},
        ub : IF fresh /\ ~pair THEN {"crash", "garbage"} ELSE {"garbage"}]

Dims == {wh \in (1..3) \X (1..3) : wh[1] * wh[2] <= MaxPixels}

Masks(n) == {m \in SUBSET (0..(n - 1)) : n - Cardinality(m) <= MaxLive}

NoImage == <<>>

DecodeInputs ==
    {[source |-> "arbitrary", xsize |-> wh[1], ysize |-> wh[2], mask |-> m,
      sf_count |-> c, levels |-> 2, fill |-> 170, img |-> NoImage,
      tile_sf |-> 0, tile_cf |-> 0] :
        wh \in Dims, m \in SUBSET (0..(MaxPixels - 1)), c \in {2}}

-----------------------------------------------------------------------------
(* Decoding one arbitrary stream                                           *)

DecodeInit ==
    /\ input \in {in \in DecodeInputs : in.mask \in Masks(in.xsize * in.ysize)}
    /\ dec = NewReader(input)
    /\ decB = NewReader(input)
    /\ stream = <<>>
    /\ toggle = -1
    /\ LzIdle
    /\ MonoIdle

MaskedPixel ==
    /\ dec.pc = "pixels"
    /\ Cur(dec) \in input.mask
    /\ dec' = Advance(readMasked(RowStart(dec)))
    /\ UNCHANGED <<decB, input, stream, toggle>>
    /\ UNCHANGED notDecVars

ReadSafePixel ==
    /\ dec.pc = "pixels"
    /\ Cur(dec) \notin input.mask
    /\ ~Interior(dec)
    /\ \E g \in Reads(dec) :
          dec' = Advance(readSafe(RowStart(dec), dec.x, dec.y, g))
    /\ UNCHANGED <<decB, input, stream, toggle>>
    /\ UNCHANGED notDecVars

ReadUnsafePixel ==
    /\ dec.pc = "pixels"
    /\ Cur(dec) \notin input.mask
    /\ Interior(dec)
    /\ \E g \in Reads(dec) :
          dec' = Advance(readUnsafe(RowStart(dec), dec.x, dec.y, g))
    /\ UNCHANGED <<decB, input, stream, toggle>>
    /\ UNCHANGED notDecVars

DecodeNext == MaskedPixel \/ ReadSafePixel \/ ReadUnsafePixel

SpecDecode == DecodeInit /\ [][DecodeNext]_vars

-----------------------------------------------------------------------------
(* Claims about decoding (SpecDecode)                                      *)

\* C2: a masked pixel decodes to the mask's colour whatever the stream
\* holds, no symbol is read for it, and no later step changes it
C2_MaskPrecedence ==
    /\ dec.trace.mode = "mask" =>
          /\ dec.trace.reads = <<>>
          /\ dec._rgba[dec.trace.pos] = MaskColor
    /\ \A i \in input.mask \cap dec.written : dec._rgba[i] = MaskColor

\* a masked pixel was decoded after an unmasked pixel that read symbols
C2_Witness ==
    /\ dec.trace.mode = "mask"
    /\ dec.rpos > 0
    /\ dec.trace.pos \in input.mask
    /\ dec._rgba[dec.trace.pos - 1] # MaskColor

\* the tile filter ids read for the last pixel are not both in range
BadIds(d) ==
    /\ Len(d.trace.ids) = 2
    /\ (d.trace.ids[1] >= CF_COUNT \/ d.trace.ids[2] >= d._sf_count)

\* C7: a decoded filter id outside the active subset makes the read fail
\* and selects no filter function
C7_UnknownFilterFails ==
    BadIds(dec) =>
        /\ dec.pc = "fail"
        /\ ~Ready(dec._filters[(dec.trace.pos % dec._xsize) \div TileSize])

\* how often kind k was read for the last pixel
ReadCount(d, k) == Cardinality({j \in 1..Len(d.trace.reads) : d.trace.reads[j] = k})

\* C8: an LZ escape reads no U, V, A and still writes the pixel; a literal
\* Y is followed by exactly one U, one V and one A
C8_ThreeModes ==
    /\ dec.trace.mode = "lz" =>
          /\ ReadCount(dec, "U") = 0 /\ ReadCount(dec, "V") = 0
          /\ ReadCount(dec, "A") = 0
          /\ dec.trace.pos \in dec.written
    /\ dec.trace.mode = "yuva" =>
          /\ ReadCount(dec, "U") = 1 /\ ReadCount(dec, "V") = 1
          /\ ReadCount(dec, "A") = 1

\* C9: on an LZ escape the decoder reads length and distance, writes the
\* copied pixel and leaves a zero chaos entry at the column
C9_LZCopy ==
    dec.trace.mode = "lz" =>
        /\ dec.trace.reads = <<"Y", "LEN", "DIST">>
        /\ dec.trace.pos \in dec.written
        /\ dec._chaos.last[dec.trace.pos % dec._xsize] = Zero3

\* C10: the tile's filter ids are read before the pixel's Y symbol
C10_FilterBeforeY ==
    \A j, k \in 1..Len(dec.trace.reads) :
        dec.trace.reads[j] \in {"CF", "SF"} /\ dec.trace.reads[k] = "Y" => j < k

-----------------------------------------------------------------------------
(* The encoder's pixel scan (ImageRGBAWriter::writePixels): each unmasked  *)
(* pixel as residual symbols, a tile's filter ids ahead of the first pixel *)
(* written in it.  LZ is off (lz_enable = false).                          *)

\* filter of tile (tx, ty) as index into the active subset
TileSF(in, tx, ty) == (in.tile_sf + tx + ty) % in.sf_count
TileCF(in, tx, ty) == (in.tile_cf + tx + ty) % CF_COUNT

Sym(kind, bin, v) == [kind |-> kind, bin |-> bin, v |-> v]

RECURSIVE writePixels(_, _, _, _)
writePixels(in, i, chaos, seen) ==
    IF i >= in.xsize * in.ysize THEN <<>>
    ELSE LET x == i % in.xsize
             y == i \div in.xsize
             tx == x \div TileSize
             ty == y \div TileSize
             seen0 == IF x = 0 /\ y % TileSize = 0 THEN {} ELSE seen
         IN IF i \in in.mask
            THEN writePixels(in, i + 1, ChaosZero(chaos, x), seen0)
            ELSE LET sf == TileSF(in, tx, ty)
                     cf == TileCF(in, tx, ty)
                     pred == SFSafe(sf, in.img, x, y, in.xsize)
                     px == in.img[i]
                     r == <<U8(px[1] - pred[1] + 256), U8(px[2] - pred[2] + 256),
                            U8(px[3] - pred[3] + 256)>>
                     YUV == RGB2YUV(cf, r)
                     bins == ChaosGet(chaos, x)
                     hdr == IF tx \in seen0 THEN <<>>
                            ELSE <<Sym("CF", 0, cf), Sym("SF", 0, sf)>>
                 IN hdr \o <<Sym("Y", bins[1], YUV[1]), Sym("U", bins[2], YUV[2]),
                             Sym("V", bins[3], YUV[3]), Sym("A", 0, 255 - px[4])>>
                    \o writePixels(in, i + 1, ChaosStore(chaos, x, YUV),
                                   seen0 \cup {tx})

\* the stream the encoder writes for an input
Encode(in) ==
    writePixels(in, 0, [levels |-> in.levels,
                        last |-> [x \in 0..(in.xsize - 1) |-> Zero3]], {})

\* unmasked pixels alternate between two colours, masked ones hold the
\* mask's colour
Images(n, m) ==
    {[i \in 0..(n - 1) |->
        IF i \in m THEN MaskColor
        ELSE IF (i + k) % 2 = 0 THEN <<255, 0, 0, 255>> ELSE <<10, 200, 30, 128>>] :
     k \in 0..1}

CodecInputs ==
    UNION {UNION {
        {[source |-> "encoder", xsize |-> wh[1], ysize |-> wh[2], mask |-> m,
          sf_count |-> SPATIAL_COUNT, levels |-> 2, fill |-> 170, img |-> im,
          tile_sf |-> s, tile_cf |-> s % CF_COUNT] :
            im \in Images(wh[1] * wh[2], m), s \in 0..(SPATIAL_COUNT - 1)} :
        m \in Masks(wh[1] * wh[2])} : wh \in Dims}

CodecInit ==
    /\ input \in CodecInputs
    /\ dec = NewReader(input)
    /\ decB = NewReader(input)
    /\ stream = Encode(input)
    /\ toggle = -1
    /\ LzIdle
    /\ MonoIdle

SpecCodec == CodecInit /\ [][DecodeNext]_vars

\* C1: decoding the encoder's stream ends without failure and gives back
\* every pixel of the input
C1_RoundTrip ==
    dec.pc # "pixels" =>
        /\ dec.pc = "done"
        /\ \A i \in DOMAIN dec._rgba : dec._rgba[i] = input.img[i]

-----------------------------------------------------------------------------
(* Two decoding runs of the same image layout over two streams that hold   *)
(* the same symbols except for the Y symbol of the pixel at scan index     *)
(* toggle.  Both runs start from the same output buffer.                   *)

TwoRunInit ==
    /\ input \in {[in EXCEPT !.source = "pair"] :
                    in \in {i \in DecodeInputs : i.mask \in Masks(i.xsize * i.ysize)}}
    /\ dec = NewReader(input)
    /\ decB = NewReader(input)
    /\ stream = <<>>
    /\ toggle \in (0..(input.xsize * input.ysize - 1)) \ input.mask
    /\ LzIdle
    /\ MonoIdle

\* the symbols the second run reads where the first run reads g
Toggled(d, g) ==
    IF Cur(d) = toggle
    THEN {h \in Reads(d) : h.Y # g.Y /\ [h EXCEPT !.Y = g.Y] = g}
    ELSE {g}

TwoMasked ==
    /\ dec.pc = "pixels" /\ decB.pc = "pixels"
    /\ Cur(dec) \in input.mask
    /\ dec' = Advance(readMasked(RowStart(dec)))
    /\ decB' = Advance(readMasked(RowStart(decB)))
    /\ UNCHANGED <<input, stream, toggle>>
    /\ UNCHANGED notDecVars

TwoSafe ==
    /\ dec.pc = "pixels" /\ decB.pc = "pixels"
    /\ Cur(dec) \notin input.mask
    /\ ~Interior(dec)
    /\ \E g \in Reads(dec) : \E h \in Toggled(dec, g) :
          /\ dec' = Advance(readSafe(RowStart(dec), dec.x, dec.y, g))
          /\ decB' = Advance(readSafe(RowStart(decB), decB.x, decB.y, h))
    /\ UNCHANGED <<input, stream, toggle>>
    /\ UNCHANGED notDecVars

TwoUnsafe ==
    /\ dec.pc = "pixels" /\ decB.pc = "pixels"
    /\ Cur(dec) \notin input.mask
    /\ Interior(dec)
    /\ \E g \in Reads(dec) : \E h \in Toggled(dec, g) :
          /\ dec' = Advance(readUnsafe(RowStart(dec), dec.x, dec.y, g))
          /\ decB' = Advance(readUnsafe(RowStart(decB), decB.x, decB.y, h))
    /\ UNCHANGED <<input, stream, toggle>>
    /\ UNCHANGED notDecVars

TwoRunNext == TwoMasked \/ TwoSafe \/ TwoUnsafe

SpecTwoRun == TwoRunInit /\ [][TwoRunNext]_vars

-----------------------------------------------------------------------------
(* LZMatchFinder                                                           *)

MAX_MATCH == 4096
WIN_SIZE == 1024 * 1024
RGBA_MIN_MATCH == 2
RGBA_DIST_PREFIX_COST == 7
RGBA_LEN_PREFIX_COST == 5
RGBA_SAVED_PIXEL_BITS == 9
\* 0xffffffff, written as the u32 image of -1
GUARD_OFFSET == -1

\* fields land in the wrong members
LZMatch_Swapped(offset, distance, length) ==
    [offset |-> distance, distance |-> offset, length |-> length % (2 ^ 16)]

\* LZMatch::LZMatch; offset and distance are u32 and hold every pixel
\* offset, length is u16
LZMatch(offset, distance, length) ==
    [offset |-> offset, distance |-> distance, length |-> length % (2 ^ 16)]

\* LZMatchFinder::size
size(f) == Len(f._matches)

\* LZMatchFinder::reset
reset(f) == [f EXCEPT !._next_match = 1]

\* LZMatchFinder::peekOffset
peekOffset(f) == f._matches[f._next_match].offset

\* LZMatchFinder::pop
pop(f) == [f EXCEPT !._next_match = f._next_match + 1,
                    !.popped = f._matches[f._next_match]]

\* the pixel at an offset: the input repeats with period lzin.period
Rgba(in, i) == i % in.period

\* HashRGBA has no return statement, so the bucket of an offset is whatever
\* the build leaves in the result: "content" is the intended hash of the
\* two pixels at the offset, "constant" puts every offset in one bucket,
\* "unique" puts every offset in its own
HashRGBA(in, i) ==
    IF in.hash = "content" THEN <<Rgba(in, i), Rgba(in, i + 1)>>
    ELSE IF in.hash = "constant" THEN <<0, 0>>
    ELSE <<i, i>>

\* smallest k with 2^k >= n
RECURSIVE CeilLog2From(_, _)
CeilLog2From(n, k) == IF 2 ^ k >= n THEN k ELSE CeilLog2From(n, k + 1)
CeilLog2(n) == CeilLog2From(n, 0)

\* bits a match of length L at distance D saves
MatchScore(L, D) ==
    L * RGBA_SAVED_PIXEL_BITS
      - (RGBA_LEN_PREFIX_COST + CeilLog2(L) + RGBA_DIST_PREFIX_COST + CeilLog2(D))

\* the hash chain of the bucket of offset ii, nearest first, cut at the
\* walk limit; every earlier offset has been inserted
RECURSIVE ChainFrom(_, _, _, _)
ChainFrom(in, ii, node, left) ==
    IF node < 0 \/ left = 0 \/ ii - node > WIN_SIZE THEN <<>>
    ELSE IF HashRGBA(in, node) = HashRGBA(in, ii)
         THEN <<node>> \o ChainFrom(in, ii, node - 1, left - 1)
         ELSE ChainFrom(in, ii, node - 1, left)

Chain(in, ii) == ChainFrom(in, ii, ii - 1, ChainLimit)

\* the match of candidate node at offset ii can grow past length len
CanExtend(in, ii, node, len) ==
    /\ len < MAX_MATCH
    /\ ii + len < in.pixels
    /\ Rgba(in, node + len) = Rgba(in, ii + len)
    /\ node + len \notin in.mask
    /\ ii + len \notin in.mask

NewFinder ==
    [_matches |-> <<>>, _next_match |-> 0, popped |-> LZMatch(0, 0, 0),
     pc |-> "scan", ii |-> 0, cands |-> <<>>, len |-> 0,
     best_length |-> 0, best_distance |-> 0]

LZInputs ==
    {[pixels |-> n, period |-> p, mask |-> m, hash |-> h] :
        n \in 1..MaxScan, p \in 1..3, m \in {{}, {0}, {2}, {3}},
        h \in {"content", "constant", "unique"}}
    \cup
    {[pixels |-> MAX_MATCH + 10, period |-> 1, mask |-> m, hash |-> h] :
        m \in {{}, {5}}, h \in {"content", "constant"}}

LZInit ==
    /\ lzin \in LZInputs
    /\ lz = NewFinder
    /\ DecIdle
    /\ MonoIdle

\* scanRGBA reaches offset ii: walk the chain of its bucket, or finish
\* the list with the guard
LZLookup ==
    /\ lz.pc = "scan"
    /\ lz' = IF lz.ii + RGBA_MIN_MATCH > lzin.pixels
             THEN [lz EXCEPT !.pc = "listed",
                             !._matches = Append(lz._matches,
                                                 LZMatch(GUARD_OFFSET, 0, 0))]
             ELSE [lz EXCEPT !.pc = "walk", !.cands = Chain(lzin, lz.ii),
                             !.len = 0, !.best_length = 0, !.best_distance = 0]
    /\ UNCHANGED lzin
    /\ UNCHANGED notLzVars

\* one more pixel of the current candidate matches
LZExtend ==
    /\ lz.pc = "walk"
    /\ lz.cands # <<>>
    /\ CanExtend(lzin, lz.ii, Head(lz.cands), lz.len)
    /\ lz' = [lz EXCEPT !.len = lz.len + 1]
    /\ UNCHANGED lzin
    /\ UNCHANGED notLzVars

\* the current candidate is as long as it gets: keep it if it saves bits
\* and is longer than the best so far (the nearer one on equal length)
LZScore ==
    /\ lz.pc = "walk"
    /\ lz.cands # <<>>
    /\ ~CanExtend(lzin, lz.ii, Head(lz.cands), lz.len)
    /\ LET distance == lz.ii - Head(lz.cands)
           better == /\ lz.len >= RGBA_MIN_MATCH
                     /\ MatchScore(lz.len, distance) > 0
                     /\ lz.len > lz.best_length
       IN lz' = [lz EXCEPT !.cands = Tail(lz.cands), !.len = 0,
                           !.best_length = IF better THEN lz.len ELSE @,
                           !.best_distance = IF better THEN distance ELSE @]
    /\ UNCHANGED lzin
    /\ UNCHANGED notLzVars

\* the chain is walked: record the best match and skip the pixels it covers
LZRecord ==
    /\ lz.pc = "walk"
    /\ lz.cands = <<>>
    /\ lz' = IF lz.best_length >= RGBA_MIN_MATCH
             THEN [lz EXCEPT !.pc = "scan",
                             !._matches = Append(lz._matches,
                                 LZMatch(lz.ii, lz.best_distance, lz.best_length)),
                             !.ii = lz.ii + lz.best_length]
             ELSE [lz EXCEPT !.pc = "scan", !.ii = lz.ii + 1]
    /\ UNCHANGED lzin
    /\ UNCHANGED notLzVars

\* the encoder starts consuming the list
LZReset ==
    /\ lz.pc = "listed"
    /\ lz' = [reset(lz) EXCEPT !.pc = "popping"]
    /\ UNCHANGED lzin
    /\ UNCHANGED notLzVars

\* the encoder takes the next match; it does not pop the guard
LZPop ==
    /\ lz.pc = "popping"
    /\ peekOffset(lz) # GUARD_OFFSET
    /\ lz' = pop(lz)
    /\ UNCHANGED lzin
    /\ UNCHANGED notLzVars

LZNext == LZLookup \/ LZExtend \/ LZScore \/ LZRecord \/ LZReset \/ LZPop

SpecLZ == LZInit /\ [][LZNext]_vars

\* the pixels offset .. offset+length-1 hold no masked pixel
Unmasked(offset, length) ==
    \A k \in lzin.mask : k < offset \/ k >= offset + length

\* a list entry is a sound match
Sound(m) ==
    /\ m.distance >= 1
    /\ m.length >= RGBA_MIN_MATCH
    /\ m.length <= MAX_MATCH
    /\ m.offset - m.distance >= 0
    /\ Unmasked(m.offset, m.length)
    /\ Unmasked(m.offset - m.distance, m.length)

MaxSide == 4

MASK_TILE == 255
TODO_TILE == 0
MAX_PASSES == 4
MF_COUNT == 3
MF_FIXED == 1
MAX_PALETTE == 16
UNUSED_SYMPAL == 255

\* *data for a pointer idx elements after _params.data
MonoData(m, idx) ==
    IF idx \in DOMAIN m._params.data THEN m._params.data[idx] ELSE m.junk

\* _params.mask(x, y)
MonoMask(m, x, y) == (x + y * m._params.size_x) \in m._params.mask

\* MONO_FILTERS[f](data, x, y, size_x): 0 predicts zero, 1 the left
\* neighbour, 2 the upper neighbour, each falling back at the plane's edge
MONO_FILTERS(f, m, idx, x, y) ==
    LET A == MonoData(m, idx - 1)
        B == MonoData(m, idx - m._params.size_x)
    IN  CASE f = 0 -> 0
          [] f = 1 -> IF x > 0 THEN A ELSE IF y > 0 THEN B ELSE 0
          [] f = 2 -> IF y > 0 THEN B ELSE IF x > 0 THEN A ELSE 0
          [] OTHER -> m.junk

\* RESIDUAL_SCORE[r]: the magnitude of a wrapped byte residual
RESIDUAL_SCORE(r) == IF r < 128 THEN r ELSE 256 - r

\* F applied to the value of v, computed once
Apply(F(_), v) == CHOOSE r \in {F(x) : x \in {v}} : TRUE

RECURSIVE SumFrom(_, _, _)
SumFrom(g, lo, hi) == IF lo > hi THEN 0 ELSE g[lo] + SumFrom(g, lo + 1, hi)

\* f[lo] + ... + f[hi]
MonoSum(f, lo, hi) == Apply(LAMBDA g : SumFrom(g, lo, hi), f)

\* EntropyEstimator::entropy(codes, count): the number of nonzero codes
EntropyOf(codes) ==
    LET Count(cs) == Cardinality({j \in 1..Len(cs) : cs[j] # 0})
    IN  Apply(Count, codes)

\* FilterScorer::getTop(k, sorted): the k best entries of the list, best
\* first; residual scores rank low first, awards rank high first
RECURSIVE getTop(_, _, _, _)
getTop(list, idxs, k, high) ==
    IF k = 0 \/ idxs = {} THEN <<>>
    ELSE LET Better(i, j) == IF high THEN list[i] > list[j]
                             ELSE list[i] < list[j]
             best == CHOOSE i \in idxs : \A j \in idxs :
                        Better(i, j) \/ (list[i] = list[j] /\ i <= j)
         IN  <<[index |-> best, score |-> list[best]]>>
                \o getTop(list, idxs \ {best}, k - 1, high)

\* the tile loops: tile k has its origin at (x, y); topleft advances by
\* tile_size_x per tile and is never moved down a tile row
TileX(m, k) == (k % m._tiles_x) * m._tile_size_x
TileY(m, k) == (k \div m._tiles_x) * m._tile_size_y

\* the rows of tile k whose elements are visited: px stays at x in the
\* element loops, so the mask is asked about column x only
TileRows(m, k) ==
    LET Live(r) == /\ TileY(m, k) + r < m._params.size_y
                   /\ ~MonoMask(m, TileX(m, k), TileY(m, k) + r)
    IN  SelectSeq([i \in 1..m._tile_size_y |-> i - 1], Live)

\* the data offsets the element loops read for tile k, in order
TileElems(m, k) ==
    LET ts == m._tile_size_x
        Offsets(rows) ==
            [j \in 1..(Len(rows) * ts) |->
                k * ts + rows[((j - 1) \div ts) + 1] * m._params.size_x
                       + ((j - 1) % ts)]
    IN  Apply(Offsets, TileRows(m, k))

Tiles(m) == 0..(m._tiles_count - 1)

\* MonoWriter::maskTiles
maskTiles(m) ==
    [m EXCEPT !._tiles = [k \in Tiles(m) |->
        IF Len(TileRows(m, k)) > 0 THEN TODO_TILE ELSE MASK_TILE]]

Uniform(m, k) ==
    \E e \in {TileElems(m, k)} :
        \A j \in 1..Len(e) : MonoData(m, e[j]) = MonoData(m, e[1])

UniformValue(m, k) ==
    LET First(e) == IF Len(e) = 0 THEN 0 ELSE MonoData(m, e[1])
    IN  Apply(First, TileElems(m, k))

\* MonoWriter::designPaletteFilters; hist is indexed by the uniform value
designPaletteFilters(m) ==
    LET hist(sym) == Cardinality({k \in Tiles(m) :
                        /\ m._tiles[k] # MASK_TILE
                        /\ Uniform(m, k)
                        /\ UniformValue(m, k) = sym})
        sympal_thresh == (m._params.sympal_thresh * m._tiles_count) \div 100
        Worth(sym) == hist(sym) > sympal_thresh
        all == SelectSeq([i \in 1..m._params.num_syms |-> i - 1], Worth)
        pal == SubSeq(all, 1, Min(Len(all), MAX_PALETTE))
    IN  [m EXCEPT !._sympal = pal,
                  !._sympal_filters = Len(pal),
                  !._sympal_filter_map = [i \in 1..Len(pal) |-> UNUSED_SYMPAL]]

\* scores after the element loop of tile k (designFilters, 203-240)
TileScores(m, k) ==
    LET score(f, e) == [j \in 1..Len(e) |->
            RESIDUAL_SCORE((MonoData(m, e[j]) + 256
                - (MONO_FILTERS(f, m, e[j], TileX(m, k), TileY(m, k))
                      % m._params.num_syms)) % 256)]
        Scores(e) ==
            [f \in 0..(MF_COUNT + m._sympal_filters - 1) |->
                IF f < MF_COUNT THEN MonoSum(score(f, e), 1, Len(e)) ELSE 0]
    IN  Apply(Scores, TileElems(m, k))

\* the palette filter of a uniform tile, or -1 (designFilters, 244-257)
SympalOf(m, k) ==
    LET hit == {f \in 0..(m._sympal_filters - 1) :
                    Uniform(m, k) /\ m._sympal[f + 1] = UniformValue(m, k)}
    IN  IF hit = {} THEN -1 ELSE CHOOSE f \in hit : \A h \in hit : f <= h

\* what tile k adds to awards[i] (designFilters, 243-263)
TileAward(m, k, i) ==
    LET n == MF_COUNT + m._sympal_filters
        Ranked(scores) == getTop(scores, 0..(n - 1), m._params.award_count, FALSE)
        Given(sf, top) ==
            LET offset == IF sf >= 0 THEN 1 ELSE 0
                given == [ii \in offset..(m._params.award_count - 1) |->
                            IF top[ii - offset + 1].index = i
                            THEN m._params.AWARDS[ii + 1] ELSE 0]
            IN  (IF sf >= 0 /\ i = MF_COUNT + sf THEN m._params.AWARDS[1] ELSE 0)
                    + MonoSum(given, offset, m._params.award_count - 1)
    IN  CHOOSE r \in {Given(sf, top) : sf \in {SympalOf(m, k)},
                                       top \in {Apply(Ranked, TileScores(m, k))}} : TRUE

\* the selection loop without the count of the palette filters it adds
RECURSIVE chooseFilters_Uncounted(_, _, _, _)
chooseFilters_Uncounted(m, top, ii, st) ==
    IF ii > Len(top) THEN st
    ELSE LET index == top[ii].index
             cov == st.coverage + (top[ii].score \div m._params.AWARDS[1])
             filter_thresh == (m._params.filter_thresh * m._tiles_count) \div 100
             seen == [st EXCEPT !.coverage = cov]
             added == IF index >= MF_COUNT
                      THEN [seen EXCEPT
                               !._sympal_filter_map[index - MF_COUNT + 1] = st.sympal_f,
                               !.sympal_f = st.sympal_f + 1]
                      ELSE [seen EXCEPT
                               !._filters = Append(st._filters, index),
                               !._filter_indices = Append(st._filter_indices, index),
                               !.normal_f = st.normal_f + 1,
                               !.filters_set = st.filters_set + 1]
         IN  IF cov >= filter_thresh THEN seen
             ELSE IF index < MF_FIXED THEN chooseFilters_Uncounted(m, top, ii + 1, seen)
             ELSE IF added.filters_set >= MAX_FILTERS THEN added
             ELSE chooseFilters_Uncounted(m, top, ii + 1, added)

\* the selection loop of designFilters (298-333) from entry ii of top
RECURSIVE chooseFilters(_, _, _, _)
chooseFilters(m, top, ii, st) ==
    IF ii > Len(top) THEN st
    ELSE LET index == top[ii].index
             cov == st.coverage + (top[ii].score \div m._params.AWARDS[1])
             filter_thresh == (m._params.filter_thresh * m._tiles_count) \div 100
             seen == [st EXCEPT !.coverage = cov]
             added == IF index >= MF_COUNT
                      THEN [seen EXCEPT
                               !._sympal_filter_map[index - MF_COUNT + 1] = st.sympal_f,
                               !.sympal_f = st.sympal_f + 1,
                               !.filters_set = st.filters_set + 1]
                      ELSE [seen EXCEPT
                               !._filters = Append(st._filters, index),
                               !._filter_indices = Append(st._filter_indices, index),
                               !.normal_f = st.normal_f + 1,
                               !.filters_set = st.filters_set + 1]
         IN  IF cov >= filter_thresh THEN seen
             ELSE IF index < MF_FIXED THEN chooseFilters(m, top, ii + 1, seen)
             ELSE IF added.filters_set >= MAX_FILTERS THEN added
             ELSE chooseFilters(m, top, ii + 1, added)

\* designFilters from the copy of the fixed filters on (269-340), awards
\* being the awards of the catalog and palette filters
selectFilters(m, awards) ==
    LET n == MF_COUNT + m._sympal_filters
        count == Min(m._params.max_filters + MF_FIXED, MF_COUNT)
        fixed == [coverage |-> 0, normal_f |-> MF_FIXED, sympal_f |-> 0,
                  filters_set |-> MF_FIXED,
                  _filters |-> [f \in 1..MF_FIXED |-> f - 1],
                  _filter_indices |-> [f \in 1..MF_FIXED |-> f - 1],
                  _sympal_filter_map |-> m._sympal_filter_map]
        Ranked(aw) == getTop(aw, 0..(n - 1), count, TRUE)
        Chosen(top) == chooseFilters(m, top, 1, fixed)
        Recorded(st) ==
            [m EXCEPT !._filters = st._filters,
                      !._filter_indices = st._filter_indices,
                      !._sympal_filter_map = st._sympal_filter_map,
                      !._normal_filter_count = st.normal_f,
                      !._sympal_filter_count = st.sympal_f,
                      !._filter_count = st.filters_set]
    IN  Apply(Recorded, Apply(Chosen, Apply(Ranked, awards)))

\* MonoWriter::designFilters
designFilters(m) ==
    LET n == MF_COUNT + m._sympal_filters
        Live(k) == m._tiles[k] # MASK_TILE
        awards == [i \in 0..(n - 1) |->
                     MonoSum([k \in Tiles(m) |->
                                IF Live(k) THEN TileAward(m, k, i) ELSE 0],
                             0, m._tiles_count - 1)]
        marked == [k \in Tiles(m) |->
                     IF Live(k) /\ SympalOf(m, k) >= 0
                     THEN MF_COUNT + SympalOf(m, k) ELSE m._tiles[k]]
        Selected(aw) == [selectFilters(m, aw) EXCEPT !._tiles = marked]
    IN  Apply(Selected, awards)

\* designPaletteTiles without its remapping: the tags stay in the grid
designPaletteTiles_Tagged(m) == m

\* MonoWriter::designPaletteTiles
designPaletteTiles(m) ==
    IF m._sympal_filter_count < 0 THEN m
    ELSE [m EXCEPT !._tiles = [k \in Tiles(m) |->
            LET value == m._tiles[k]
            IN  IF value = MASK_TILE THEN value
                ELSE IF value >= MF_COUNT
                THEN IF m._sympal_filter_map[value - MF_COUNT + 1] # UNUSED_SYMPAL
                     THEN m._normal_filter_count
                            + m._sympal_filter_map[value - MF_COUNT + 1]
                     ELSE TODO_TILE
                ELSE value]]

NEIGHBOR_REWARD == 1

\* _filters[f](data, x, y, size_x); designFilters assigns only the slots
\* below _normal_filter_count, a call through a higher slot is a call
\* through an unassigned pointer
FilterCall(m, f, idx, x, y) ==
    IF f < Len(m._filters)
    THEN MONO_FILTERS(m._filters[f + 1], m, idx, x, y)
    ELSE m.junk

\* the tile loop without the reward for matching neighbours
designTile_NoNeighbors(m, k) ==
    LET num_syms == m._params.num_syms
        codes(f, e) == [j \in 1..Len(e) |->
            (MonoData(m, e[j]) + num_syms
                - (FilterCall(m, f, e[j], TileX(m, k), TileY(m, k)) % num_syms))
            % num_syms]
        tx == k % m._tiles_x
        ty == k \div m._tiles_x
        a == IF tx > 0 THEN m._tiles[k - 1] ELSE MASK_TILE
        b == IF ty > 0 THEN m._tiles[k - m._tiles_x] ELSE MASK_TILE
        c == IF ty > 0 /\ tx > 0 THEN m._tiles[k - m._tiles_x - 1] ELSE MASK_TILE
        d == IF ty > 0 /\ tx < m._tiles_x - 1
             THEN m._tiles[k - m._tiles_x + 1] ELSE MASK_TILE
        Nudge(hit) == IF hit THEN NEIGHBOR_REWARD ELSE 0
        fs == 0..(m._filter_count - 1)
        Nudged(f, base) == base - Nudge(base = 0)
        Entropies(e) == [f \in fs |-> Apply(LAMBDA base : Nudged(f, base),
                                             EntropyOf(codes(f, e)))]
        Best(entropy) == CHOOSE f \in fs : \A h \in fs :
            entropy[f] < entropy[h] \/ (entropy[f] = entropy[h] /\ f <= h)
        Selected(e) ==
            IF m._filter_count > Len(m._filters) /\ Len(e) > 0 /\ m.ub = "crash"
            THEN [m EXCEPT !.pc = "crash"]
            ELSE [m EXCEPT !._tiles[k] = Apply(Best, Entropies(e)),
                           !.revisitCount = IF m.passes > 0 THEN @ - 1 ELSE @]
    IN  IF m._tiles[k] >= m._normal_filter_count THEN m
        ELSE IF m.passes > 0 /\ m.revisitCount - 1 < 0
        THEN [m EXCEPT !.revisitCount = @ - 1, !.pc = "computeResiduals"]
        ELSE Apply(Selected, TileElems(m, k))

\* the body of designTiles' tile loop (410-542) with the cursor p on tile
\* k of the grid
designTile(m, k) ==
    LET num_syms == m._params.num_syms
        codes(f, e) == [j \in 1..Len(e) |->
            (MonoData(m, e[j]) + num_syms
                - (FilterCall(m, f, e[j], TileX(m, k), TileY(m, k)) % num_syms))
            % num_syms]
        tx == k % m._tiles_x
        ty == k \div m._tiles_x
        a == IF tx > 0 THEN m._tiles[k - 1] ELSE MASK_TILE
        b == IF ty > 0 THEN m._tiles[k - m._tiles_x] ELSE MASK_TILE
        c == IF ty > 0 /\ tx > 0 THEN m._tiles[k - m._tiles_x - 1] ELSE MASK_TILE
        d == IF ty > 0 /\ tx < m._tiles_x - 1
             THEN m._tiles[k - m._tiles_x + 1] ELSE MASK_TILE
        Nudge(hit) == IF hit THEN NEIGHBOR_REWARD ELSE 0
        fs == 0..(m._filter_count - 1)
        Nudged(f, base) == base - Nudge(base = 0)
                        - Nudge(f = a) - Nudge(f = b) - Nudge(f = c) - Nudge(f = d)
        Entropies(e) == [f \in fs |-> Apply(LAMBDA base : Nudged(f, base),
                                             EntropyOf(codes(f, e)))]
        Best(entropy) == CHOOSE f \in fs : \A h \in fs :
            entropy[f] < entropy[h] \/ (entropy[f] = entropy[h] /\ f <= h)
        Selected(e) ==
            IF m._filter_count > Len(m._filters) /\ Len(e) > 0 /\ m.ub = "crash"
            THEN [m EXCEPT !.pc = "crash"]
            ELSE [m EXCEPT !._tiles[k] = Apply(Best, Entropies(e)),
                           !.revisitCount = IF m.passes > 0 THEN @ - 1 ELSE @]
    IN  IF m._tiles[k] >= m._normal_filter_count THEN m
        ELSE IF m.passes > 0 /\ m.revisitCount - 1 < 0
        THEN [m EXCEPT !.revisitCount = @ - 1, !.pc = "computeResiduals"]
        ELSE Apply(Selected, TileElems(m, k))

RECURSIVE sweepTiles(_, _)
sweepTiles(m, k) ==
    IF k >= m._tiles_count \/ m.pc # "designTiles" THEN m
    ELSE Apply(LAMBDA swept : sweepTiles(swept, k + 1), designTile(m, k))

\* a sweep that starts with p at the end of _tiles: every *p is a byte
\* outside the array.  The bytes read are all >= _normal_filter_count
\* ("skip": no tile is touched), or one is smaller and *p = bestFilterIndex
\* lands outside the array ("select"), or the access faults ("crash")
OobSweeps == {"skip", "select", "crash"}
oobSweep(m, o) ==
    IF o = "crash" THEN [m EXCEPT !.pc = "crash", !.oob = o]
    ELSE [m EXCEPT !.oob = o]

\* designTiles up to the loop (386-402)
designTilesBegin(m) ==
    [m EXCEPT !.p = 0, !.passes = 0, !.revisitCount = m._knobs.mono_revisitCount]

\* one turn of while (passes < MAX_PASSES) (403-550): neither passes nor
\* p is changed between two sweeps
designTilesPass(m, o) ==
    IF m.passes >= MAX_PASSES THEN [m EXCEPT !.pc = "computeResiduals"]
    ELSE IF m.p < m._tiles_count
    THEN LET Ended(swept) ==
                 IF swept.pc = "designTiles"
                 THEN [swept EXCEPT !.p = m._tiles_count] ELSE swept
         IN  Apply(Ended, sweepTiles(m, m.p))
    ELSE oobSweep(m, o)

\* MonoWriter::process up to the first call (815-843); with an empty range
\* of bits the function falls off its end
process(m) ==
    LET bits == m._params.min_bits
        tsize == 2 ^ bits
        tiles_x == (m._params.size_x + tsize - 1) \div tsize
        tiles_y == (m._params.size_y + tsize - 1) \div tsize
    IN  IF bits > m._params.max_bits THEN [m EXCEPT !.pc = "returned"]
        ELSE [m EXCEPT !.pc = "maskTiles",
                       !.bits = bits,
                       !._tile_bits_x = bits, !._tile_bits_y = bits,
                       !._tile_size_x = tsize, !._tile_size_y = tsize,
                       !._tiles_x = tiles_x, !._tiles_y = tiles_y,
                       !._tiles_count = tiles_x * tiles_y,
                       !._tiles = [k \in 0..(tiles_x * tiles_y - 1) |-> m.junk]]

\* a MonoWriter before process(): junk is the byte its reads outside an
\* array return, ub what a call through an unassigned pointer does
NewMono(params, knobs, junk, ub) ==
    [pc |-> "process", _params |-> params, _knobs |-> knobs,
     junk |-> junk, ub |-> ub, bits |-> 0,
     _tile_bits_x |-> 0, _tile_bits_y |-> 0,
     _tile_size_x |-> 0, _tile_size_y |-> 0,
     _tiles_x |-> 0, _tiles_y |-> 0, _tiles_count |-> 0, _tiles |-> <<>>,
     _sympal |-> <<>>, _sympal_filters |-> 0, _sympal_filter_map |-> <<>>,
     _filters |-> <<>>, _filter_indices |-> <<>>,
     _normal_filter_count |-> 0, _sympal_filter_count |-> 0, _filter_count |-> 0,
     p |-> 0, passes |-> 0, revisitCount |-> 0, oob |-> "none"]

\* planes: all zero, alternating columns, alternating rows
MonoPlanes(sx, sy) ==
    { [i \in 0..(sx * sy - 1) |-> 0],
      [i \in 0..(sx * sy - 1) |-> (i % sx) % 2],
      [i \in 0..(sx * sy - 1) |-> (i \div sx) % 2] }

\* the knobs: palette filters on or off, a coverage threshold that is or
\* is not reached
MonoKnobs ==
    { [sympal_thresh |-> 0, filter_thresh |-> 400, max_filters |-> 2],
      [sympal_thresh |-> 100, filter_thresh |-> 50, max_filters |-> 0],
      [sympal_thresh |-> 0, filter_thresh |-> 50, max_filters |-> 2] }

MonoParamsOf(sx, sy) ==
    { [data |-> d, size_x |-> sx, size_y |-> sy, num_syms |-> 2,
       min_bits |-> lo, max_bits |-> 2, mask |-> mk,
       sympal_thresh |-> kn.sympal_thresh, filter_thresh |-> kn.filter_thresh,
       award_count |-> 2, AWARDS |-> <<4, 2>>, max_filters |-> kn.max_filters] :
        d \in MonoPlanes(sx, sy), lo \in 1..2,
        mk \in {{}, {0, sx}}, kn \in MonoKnobs }

MonoParams == UNION { MonoParamsOf(sx, sy) : sx \in 2..MaxSide, sy \in 2..3 }

MonoInit ==
    /\ \E params \in MonoParams, jb \in 0..1, ub \in {"crash", "garbage"} :
          /\ mono = NewMono(params, [mono_revisitCount |-> 2], 0, "garbage")
          /\ monoB = NewMono(params, [mono_revisitCount |-> 2], jb, ub)
    /\ DecIdle
    /\ LzIdle

\* both runs take the same step of process()
Staged(m, stage, next, Op(_)) ==
    IF m.pc = stage THEN [Op(m) EXCEPT !.pc = next] ELSE m

MonoProcess ==
    /\ mono.pc = "process" \/ monoB.pc = "process"
    /\ mono' = (IF mono.pc = "process" THEN process(mono) ELSE mono)
    /\ monoB' = (IF monoB.pc = "process" THEN process(monoB) ELSE monoB)
    /\ UNCHANGED notMonoVars

MonoMaskTiles ==
    /\ mono.pc = "maskTiles" \/ monoB.pc = "maskTiles"
    /\ mono' = Staged(mono, "maskTiles", "designPaletteFilters", maskTiles)
    /\ monoB' = Staged(monoB, "maskTiles", "designPaletteFilters", maskTiles)
    /\ UNCHANGED notMonoVars

MonoDesignPaletteFilters ==
    /\ mono.pc = "designPaletteFilters" \/ monoB.pc = "designPaletteFilters"
    /\ mono' = Staged(mono, "designPaletteFilters", "designFilters", designPaletteFilters)
    /\ monoB' = Staged(monoB, "designPaletteFilters", "designFilters", designPaletteFilters)
    /\ UNCHANGED notMonoVars

MonoDesignFilters ==
    /\ mono.pc = "designFilters" \/ monoB.pc = "designFilters"
    /\ mono' = Staged(mono, "designFilters", "designPaletteTiles", designFilters)
    /\ monoB' = Staged(monoB, "designFilters", "designPaletteTiles", designFilters)
    /\ UNCHANGED notMonoVars

MonoDesignPaletteTiles ==
    /\ mono.pc = "designPaletteTiles" \/ monoB.pc = "designPaletteTiles"
    /\ mono' = Staged(mono, "designPaletteTiles", "designTilesBegin", designPaletteTiles)
    /\ monoB' = Staged(monoB, "designPaletteTiles", "designTilesBegin", designPaletteTiles)
    /\ UNCHANGED notMonoVars

MonoDesignTilesBegin ==
    /\ mono.pc = "designTilesBegin" \/ monoB.pc = "designTilesBegin"
    /\ mono' = Staged(mono, "designTilesBegin", "designTiles", designTilesBegin)
    /\ monoB' = Staged(monoB, "designTilesBegin", "designTiles", designTilesBegin)
    /\ UNCHANGED notMonoVars

\* what the next sweep of a run can do: a sweep inside the grid has one
\* outcome
Outcomes(m) ==
    IF m.pc = "designTiles" /\ m.passes < MAX_PASSES /\ m.p >= m._tiles_count
    THEN OobSweeps ELSE {"none"}

MonoDesignTilesPass ==
    /\ mono.pc = "designTiles" \/ monoB.pc = "designTiles"
    /\ \E oa \in Outcomes(mono), ob \in Outcomes(monoB) :
          /\ mono' = (IF mono.pc = "designTiles"
                      THEN designTilesPass(mono, oa) ELSE mono)
          /\ monoB' = (IF monoB.pc = "designTiles"
                       THEN designTilesPass(monoB, ob) ELSE monoB)
    /\ UNCHANGED notMonoVars

MonoNext ==
    \/ MonoProcess
    \/ MonoMaskTiles
    \/ MonoDesignPaletteFilters
    \/ MonoDesignFilters
    \/ MonoDesignPaletteTiles
    \/ MonoDesignTilesBegin
    \/ MonoDesignTilesPass

SpecMono == MonoInit /\ [][MonoNext]_vars

\* the runs on the planes three elements wide, the second run reading
\* other bytes outside its arrays than the first
MonoFairInit ==
    /\ \E params \in MonoParamsOf(3, 2), ub \in {"crash", "garbage"} :
          /\ mono = NewMono(params, [mono_revisitCount |-> 2], 0, "garbage")
          /\ monoB = NewMono(params, [mono_revisitCount |-> 2], 1, ub)
    /\ DecIdle
    /\ LzIdle

\* process() is never preempted for good: its next step is eventually taken
SpecMonoFair == MonoFairInit /\ [][MonoNext]_vars /\ WF_vars(MonoNext)

\* the decisions of a run so far; _tiles holds decisions once maskTiles
\* has filled it
Decisions(m) ==
    [at |-> m.pc, bits |-> m._tile_bits_x,
     filters |-> m._filter_indices, sympal |-> m._sympal,
     normal |-> m._normal_filter_count, count |-> m._filter_count,
     tiles |-> IF m.pc \in {"process", "maskTiles"} THEN <<>> ELSE m._tiles,
     sweep |-> m.oob]

\* C3: two runs of process() on the same Parameters and knobs make the
\* same decisions at every step (tile size, filter subset, per-tile
\* filter); no decision depends on a value that is not an input.
C3_Deterministic == Decisions(mono) = Decisions(monoB)

\* C6: for every plane and every allowed (min_bits, max_bits), process()
\* terminates: the run eventually comes to an end, by returning or, at
\* worst, by faulting.
C6_Terminates == <>(mono.pc \in {"returned", "crash"})

\* C11: process() tries every bits value of [min_bits, max_bits] and
\* finishes with the best one: in particular the run eventually works with
\* the last value of the range, max_bits (or, at worst, faults).
C11_TriesEveryBits ==
    <>(mono._tile_bits_x = mono._params.max_bits \/ mono.pc = "crash")

-----------------------------------------------------------------------------
(* MonoWriter: the chaos levels                                            *)

\* widest residual plane handed to designChaos
MaxChaosSide == 3

MAX_CHAOS_LEVELS == 8

\* CHAOS_MAPS[K - 1][s]: the bin of score sum s among K bins, saturating
CHAOS_MAPS(K, s) == Min(s, K - 1)

\* MonoWriter::getTile(x, y): the tile of element (x, y)
getTile(m, x, y) ==
    m._tiles[(x \div m._tile_size_x) + (y \div m._tile_size_y) * m._tiles_x]

\* the row and column loops shared by designChaos and initializeEncoders:
\* element i of the plane in row order, last the chaos row (last[-1] is
\* _chaos[0]), out the symbols added so far with the bin of each
RECURSIVE chaosScan(_, _, _, _, _)
chaosScan(m, K, i, last, out) ==
    IF i >= m._params.size_x * m._params.size_y THEN out
    ELSE LET x == i % m._params.size_x
             y == i \div m._params.size_x
             row == IF x = 0 THEN [last EXCEPT ![-1] = 0] ELSE last
             f == getTile(m, x, y)
         IN  IF f = MASK_TILE \/ MonoMask(m, x, y)
             THEN chaosScan(m, K, i + 1, [row EXCEPT ![x] = 0], out)
             ELSE IF f >= m._normal_filter_count
             THEN chaosScan(m, K, i + 1, [row EXCEPT ![x] = 0], out)
             ELSE LET chaos == CHAOS_MAPS(K, RESIDUAL_SCORE(row[-1])
                                              + RESIDUAL_SCORE(row[0]))
                      residual_sym == m._residuals[i]
                  IN  chaosScan(m, K, i + 1,
                                [row EXCEPT ![x] = residual_sym],
                                Append(out, [x |-> x, y |-> y,
                                             chaos |-> chaos,
                                             sym |-> residual_sym]))

\* the symbols of a whole plane, from a cleared chaos row
chaosSymbols(m, K) ==
    chaosScan(m, K, 0, [c \in -1..(m._params.size_x - 1) |-> 0], <<>>)

\* EntropyEstimator::entropyOverall of the symbols of one bin: the symbols
\* that differ from the most frequent one
entropyOverall(syms) ==
    LET count(v) == Cardinality({j \in 1..Len(syms) : syms[j].sym = v})
        counts == {count(syms[j].sym) : j \in 1..Len(syms)}
    IN  IF Len(syms) = 0 THEN 0
        ELSE Len(syms) - (CHOOSE c \in counts : \A d \in counts : d <= c)

\* the entropy designChaos computes for K levels
chaosEntropy(m, K) ==
    LET Total(out) ==
            LET InBin(b) == SelectSeq(out, LAMBDA e : e.chaos = b)
            IN  SumFrom([ii \in 0..(K - 1) |-> entropyOverall(InBin(ii))],
                        0, K - 1)
    IN  Apply(Total, chaosSymbols(m, K))

\* the loop over the chaos levels, from chaos_levels on
RECURSIVE chaosLevels(_, _, _, _)
chaosLevels(m, chaos_levels, best_entropy, best_chaos_levels) ==
    IF chaos_levels >= MAX_CHAOS_LEVELS
    THEN [m EXCEPT !._chaos_levels = best_chaos_levels,
                   !._chaos_entropy = best_entropy]
    ELSE LET Step(entropy) ==
                IF best_entropy > entropy
                THEN chaosLevels(m, chaos_levels + 1, entropy, chaos_levels)
                ELSE chaosLevels(m, chaos_levels + 1, best_entropy,
                                 best_chaos_levels)
         IN  Apply(Step, chaosEntropy(m, chaos_levels))

designChaos(m) == chaosLevels(m, 1, 2147483647, 1)

\* initializeEncoders: _encoder holds the symbols added to each bin
initializeEncoders(m) ==
    [m EXCEPT !._encoder = chaosSymbols(m, m._chaos_levels)]

\* the residuals computeResiduals writes from tile k on, in order: the
\* tile's filter is applied at the tile origin to every element the loops
\* visit (old_filter, undeclared at 586, is the filter f of the tile)
RECURSIVE residualWrites(_, _)
residualWrites(m, k) ==
    IF k >= m._tiles_count THEN <<>>
    ELSE LET num_syms == m._params.num_syms
             Written(e) == [j \in 1..Len(e) |->
                 [at |-> e[j],
                  residual |-> (MonoData(m, e[j]) + num_syms
                      - (FilterCall(m, m._tiles[k], e[j], TileX(m, k), TileY(m, k))
                            % num_syms)) % num_syms]]
         IN  (IF m._tiles[k] >= m._normal_filter_count THEN <<>>
              ELSE Apply(Written, TileElems(m, k)))
                 \o residualWrites(m, k + 1)

\* MonoWriter::computeResiduals; computed is the set of elements a
\* residual was written for, a write outside _residuals faults or is lost
computeResiduals(m) ==
    LET Stored(w) ==
            LET inside == {j \in 1..Len(w) : w[j].at \in DOMAIN m._residuals}
                Last(i) == CHOOSE j \in inside :
                              w[j].at = i /\ \A h \in inside : w[h].at = i => h <= j
            IN  IF inside # 1..Len(w) /\ m.ub = "crash"
                THEN [m EXCEPT !.pc = "crash"]
                ELSE [m EXCEPT
                        !._residuals = [i \in DOMAIN m._residuals |->
                            IF \E j \in inside : w[j].at = i
                            THEN w[Last(i)].residual ELSE m._residuals[i]],
                        !.computed = {w[j].at : j \in inside}]
    IN  Apply(Stored, residualWrites(m, 0))

\* a MonoWriter at the call of computeResiduals: the tiles are those the
\* design passes left, the one filter of the subset is catalog filter 0,
\* _residuals holds what the allocation left in it
ChaosMono(params, tiles, junk, ub) ==
    [pc |-> "computeResiduals", _params |-> params, junk |-> junk, ub |-> ub,
     _tile_bits_x |-> 1, _tile_bits_y |-> 1,
     _tile_size_x |-> 2, _tile_size_y |-> 2,
     _tiles_x |-> (params.size_x + 1) \div 2,
     _tiles_y |-> (params.size_y + 1) \div 2,
     _tiles_count |-> ((params.size_x + 1) \div 2) * ((params.size_y + 1) \div 2),
     _tiles |-> tiles,
     _residuals |-> [i \in 0..(params.size_x * params.size_y - 1) |-> junk],
     computed |-> {},
     _filters |-> <<0>>, _filter_indices |-> <<0>>,
     _normal_filter_count |-> 1, _sympal_filter_count |-> 1,
     _filter_count |-> 2,
     _chaos_levels |-> 0, _chaos_entropy |-> 0, _encoder |-> <<>>]

\* symbols of the planes: none, and two large ones
ChaosSyms == {0, 6, 7}

\* planes two rows high; a tile is filtered, sympal or masked
ChaosInputs(sx) ==
    { ChaosMono([data |-> data, size_x |-> sx, size_y |-> 2, num_syms |-> 8,
                 mask |-> mk], tiles, junk, ub) :
        mk \in {{}, {1}},
        tiles \in [0..((sx + 1) \div 2 - 1) -> {0, 1, MASK_TILE}],
        data \in [0..(2 * sx - 1) -> ChaosSyms],
        junk \in {0, 7}, ub \in {"crash", "garbage"} }

ChaosInit ==
    /\ \E sx \in 2..MaxChaosSide : mono \in ChaosInputs(sx)
    /\ monoB = Idle
    /\ DecIdle
    /\ LzIdle

ChaosComputeResiduals ==
    /\ mono.pc = "computeResiduals"
    /\ \E r \in {computeResiduals(mono)} :
          mono' = IF r.pc = "crash" THEN r ELSE [r EXCEPT !.pc = "designChaos"]
    /\ UNCHANGED <<monoB, dec, decB, input, stream, toggle, lz, lzin>>

ChaosDesign ==
    /\ mono.pc = "designChaos"
    /\ mono' = [designChaos(mono) EXCEPT !.pc = "initializeEncoders"]
    /\ UNCHANGED <<monoB, dec, decB, input, stream, toggle, lz, lzin>>

ChaosInitializeEncoders ==
    /\ mono.pc = "initializeEncoders"
    /\ mono' = [initializeEncoders(mono) EXCEPT !.pc = "encoded"]
    /\ UNCHANGED <<monoB, dec, decB, input, stream, toggle, lz, lzin>>

ChaosNext == ChaosComputeResiduals \/ ChaosDesign \/ ChaosInitializeEncoders

SpecChaos == ChaosInit /\ [][ChaosNext]_vars

\* C12: designChaos records in _chaos_levels the smallest K of 1..8 whose
\* total size is minimal among all K of 1..8, and 1 <= K <= 8.
C12_BestChaos ==
    mono.pc \in {"initializeEncoders", "encoded"} =>
        /\ mono._chaos_levels \in 1..8
        /\ \A K \in 1..8 :
              \/ chaosEntropy(mono, mono._chaos_levels) < chaosEntropy(mono, K)
              \/ /\ chaosEntropy(mono, mono._chaos_levels) = chaosEntropy(mono, K)
                 /\ mono._chaos_levels <= K

\* the tiles of a run are settled: designTiles has swept the whole grid
Designed(m) == m.pc = "designTiles" /\ m.p >= m._tiles_count

\* every tile is masked or holds an index of the selected subset
TilesInSubset(m) ==
    \A k \in Tiles(m) :
        m._tiles[k] = MASK_TILE \/ m._tiles[k] \in 0..(m._filter_count - 1)

\* C13: once the design passes (maskTiles .. designTiles) have gone over
\* the grid, every tile is MASK_TILE or holds a filter index in
\* [0, _filter_count); no tile keeps a tag MF_COUNT + f or an index
\* outside the subset.
C13_TilesInSubset ==
    /\ Designed(mono) => TilesInSubset(mono)
    /\ Designed(monoB) => TilesInSubset(monoB)

\* a settled grid with a palette tile, remapped from its tag, next to a
\* tile with a filter designTiles chose
C13_Witness ==
    /\ Designed(mono)
    /\ \E k \in Tiles(mono) :
          /\ mono._tiles[k] # MASK_TILE
          /\ mono._tiles[k] >= mono._normal_filter_count
    /\ \E k \in Tiles(mono) : mono._tiles[k] < mono._normal_filter_count

\* the elements of tile k inside the plane, all rows and all columns
TileArea(m, k) ==
    { <<x, y>> \in (0..(m._params.size_x - 1)) \X (0..(m._params.size_y - 1)) :
        /\ x \div m._tile_size_x = k % m._tiles_x
        /\ y \div m._tile_size_y = k \div m._tiles_x }

\* C14: maskTiles writes exactly tiles_count entries, MASK_TILE for a tile
\* if and only if every element of the tile inside the plane is masked,
\* TODO_TILE for a tile with an unmasked element at any position.
C14_MaskTiles ==
    mono.pc = "designPaletteFilters" =>
        /\ DOMAIN mono._tiles = Tiles(mono)
        /\ \A k \in Tiles(mono) :
              mono._tiles[k] =
                  IF \A e \in TileArea(mono, k) : MonoMask(mono, e[1], e[2])
                  THEN MASK_TILE ELSE TODO_TILE

\* C15: designTiles terminates on every input: once entered it returns to
\* process(), which goes on to computeResiduals, after at most MAX_PASSES
\* passes (or, at worst, faults).
C15_DesignTilesReturns ==
    (mono.pc = "designTilesBegin") ~> (mono.pc \in {"computeResiduals", "crash"})

\* the entropy designTiles computes for filter f on tile k (457-484, 515)
TileEntropy(m, k, f) ==
    LET num_syms == m._params.num_syms
        Codes(e) == [j \in 1..Len(e) |->
            (MonoData(m, e[j]) + num_syms
                - (FilterCall(m, f, e[j], TileX(m, k), TileY(m, k)) % num_syms))
            % num_syms]
    IN  EntropyOf(Apply(Codes, TileElems(m, k)))

\* the neighbours of tile k among left, up, up-left and up-right that are
\* inside the grid and hold filter f
NeighborMatches(m, k, f) ==
    LET tx == k % m._tiles_x
        ty == k \div m._tiles_x
        near == { <<tx - 1, ty>>, <<tx, ty - 1>>,
                  <<tx - 1, ty - 1>>, <<tx + 1, ty - 1>> }
    IN  Cardinality({ n \in near :
            /\ n[1] \in 0..(m._tiles_x - 1)
            /\ n[2] \in 0..(m._tiles_y - 1)
            /\ m._tiles[n[1] + n[2] * m._tiles_x] = f })

\* the lowest filter index of the subset with the least score
LowestBest(m, score) ==
    CHOOSE f \in 0..(m._filter_count - 1) :
        \A h \in 0..(m._filter_count - 1) :
            score[f] < score[h] \/ (score[f] = score[h] /\ f <= h)

\* a sweep of designTiles over the grid took the run from m to n
SweptGrid(m, n) ==
    /\ m.pc = "designTiles" /\ m.p < m._tiles_count
    /\ n.pc = "designTiles" /\ n.p >= n._tiles_count

\* the sweep from m to n chose, for every live tile, the filter of least
\* entropy less reward, the reward being NEIGHBOR_REWARD per matching
\* neighbour and, with zero, another NEIGHBOR_REWARD for an entropy of 0
ChoseBy(m, n, zero) ==
    SweptGrid(m, n) =>
        \A k \in Tiles(m) :
            m._tiles[k] < m._normal_filter_count =>
                n._tiles[k] = LowestBest(n,
                    [f \in 0..(n._filter_count - 1) |->
                        TileEntropy(m, k, f)
                          - NEIGHBOR_REWARD * NeighborMatches(n, k, f)
                          - (IF zero /\ TileEntropy(m, k, f) = 0
                             THEN NEIGHBOR_REWARD ELSE 0)])

\* C16 as stated: for each live tile designTiles chooses the filter f that
\* minimizes entropy(f) - NEIGHBOR_REWARD x (number of neighbours among
\* left, up, up-left, up-right whose filter equals f), out-of-grid
\* neighbours never matching, the lowest index winning ties.
C16_AsClaimed ==
    [][ChoseBy(mono, mono', FALSE) /\ ChoseBy(monoB, monoB', FALSE)]_vars

\* C16, amended: for each live tile designTiles chooses the filter f that
\* minimizes entropy(f) - NEIGHBOR_REWARD x (number of matching neighbours
\* among left, up, up-left, up-right, plus one if entropy(f) is 0),
\* out-of-grid neighbours never matching, the lowest index winning ties.
C16_NeighborReward ==
    [][ChoseBy(mono, mono', TRUE) /\ ChoseBy(monoB, monoB', TRUE)]_vars

\* a swept grid in which a tile holds a filter other than 0 next to a
\* left neighbour that holds a filter of the subset
C16_Witness ==
    /\ Designed(mono)
    /\ mono._normal_filter_count > 1
    /\ \E k \in Tiles(mono) :
          /\ k % mono._tiles_x > 0
          /\ mono._tiles[k] \in 1..(mono._normal_filter_count - 1)
          /\ mono._tiles[k - 1] < mono._normal_filter_count

\* the chaos entry of element (x, y): its residual if it is coded, 0 if it
\* is masked, in a palette tile or outside the plane
ChaosEntry(m, x, y) ==
    IF x < 0 \/ y < 0 THEN 0
    ELSE IF getTile(m, x, y) = MASK_TILE \/ MonoMask(m, x, y) THEN 0
    ELSE IF getTile(m, x, y) >= m._normal_filter_count THEN 0
    ELSE m._residuals[x + y * m._params.size_x]

\* the bin of element (x, y) from its left and its upper neighbour
NeighborBin(m, K, x, y) ==
    CHAOS_MAPS(K, RESIDUAL_SCORE(ChaosEntry(m, x - 1, y))
                   + RESIDUAL_SCORE(ChaosEntry(m, x, y - 1)))

\* C17: for every coded element (x, y) the chaos bin is
\* CHAOS_MAP[K-1][score(residual at (x-1, y)) + score(residual at (x, y-1))],
\* the left term 0 at x = 0 and the upper term 0 at y = 0, in designChaos
\* (for every K it evaluates) and in initializeEncoders, for every column.
C17_ChaosBin ==
    /\ mono.pc \in {"initializeEncoders", "encoded"} =>
          \A K \in 1..(MAX_CHAOS_LEVELS - 1) :
              \A j \in 1..Len(chaosSymbols(mono, K)) :
                  LET e == chaosSymbols(mono, K)[j]
                  IN  e.chaos = NeighborBin(mono, K, e.x, e.y)
    /\ mono.pc = "encoded" =>
          \A j \in 1..Len(mono._encoder) :
              mono._encoder[j].chaos =
                  NeighborBin(mono, mono._chaos_levels,
                              mono._encoder[j].x, mono._encoder[j].y)

-----------------------------------------------------------------------------
(* MonoWriter: the selection of designFilters on any awards                *)

\* most palette filters among the candidates
MaxSympal == 2

\* a MonoWriter in designFilters once the tiles have given their awards
SelectMono(params, sympal_filters, awards) ==
    [pc |-> "selectFilters", _params |-> params, _tiles_count |-> 4,
     _sympal |-> [f \in 1..sympal_filters |-> f - 1],
     _sympal_filters |-> sympal_filters,
     _sympal_filter_map |-> [f \in 1..sympal_filters |-> UNUSED_SYMPAL],
     _filters |-> <<>>, _filter_indices |-> <<>>,
     _normal_filter_count |-> 0, _sympal_filter_count |-> 0,
     _filter_count |-> 0, awards |-> awards]

\* an award is a sum of AWARDS entries
SelectAwards == {0, 2, 4, 8}

SelectInputs(sympal_filters) ==
    { SelectMono([filter_thresh |-> ft, max_filters |-> mf, AWARDS |-> <<4, 2>>],
                 sympal_filters, awards) :
        ft \in {50, 100, 400}, mf \in {0, 1, 2},
        awards \in [0..(MF_COUNT + sympal_filters - 1) -> SelectAwards] }

SelectInit ==
    /\ \E sf \in 0..MaxSympal : mono \in SelectInputs(sf)
    /\ monoB = Idle
    /\ DecIdle
    /\ LzIdle

SelectFilters ==
    /\ mono.pc = "selectFilters"
    /\ mono' = [selectFilters(mono, mono.awards) EXCEPT !.pc = "selected"]
    /\ UNCHANGED <<monoB, dec, decB, input, stream, toggle, lz, lzin>>

SpecSelect == SelectInit /\ [][SelectFilters]_vars

Candidates(m) ==
    getTop(m.awards, 0..(MF_COUNT + m._sympal_filters - 1),
           Min(m._params.max_filters + MF_FIXED, MF_COUNT), TRUE)

\* the coverage of the first ii candidates
RECURSIVE CoverageOf(_, _, _)
CoverageOf(m, top, ii) ==
    IF ii = 0 THEN 0
    ELSE CoverageOf(m, top, ii - 1) + (top[ii].score \div m._params.AWARDS[1])

\* filter number index is in the selected set
InSelected(m, index) ==
    IF index >= MF_COUNT
    THEN m._sympal_filter_map[index - MF_COUNT + 1] # UNUSED_SYMPAL
    ELSE \E f \in 1..Len(m._filter_indices) : m._filter_indices[f] = index

\* C19: designFilters adds the candidates in descending award order until
\* their cumulative coverage reaches filter_thresh x tiles_count: every
\* candidate ranked before that point, and the candidate whose coverage
\* makes the sum reach the threshold, is in the selected set.
C19_UpToThreshold ==
    mono.pc = "selected" =>
        \A ii \in 1..Len(Candidates(mono)) :
            CoverageOf(mono, Candidates(mono), ii - 1)
                    < (mono._params.filter_thresh * mono._tiles_count) \div 100
                => InSelected(mono, Candidates(mono)[ii].index)

\* the palette section of the header (writeTables, 935-943): the symbols
\* written after the count
writeSympal(m) == [f \in 1..m._sympal_filter_count |-> m._sympal[f]]

\* every tile of the run that holds palette filter i is, in all its
\* unmasked elements, the i-th symbol of the header
SympalConsistent(m) ==
    \A k \in Tiles(m) :
        (m._tiles[k] # MASK_TILE /\ m._tiles[k] >= m._normal_filter_count) =>
            /\ m._tiles[k] - m._normal_filter_count + 1 \in DOMAIN writeSympal(m)
            /\ \A e \in TileArea(m, k) :
                  MonoMask(m, e[1], e[2])
                  \/ m._params.data[e[1] + e[2] * m._params.size_x]
                       = writeSympal(m)[m._tiles[k] - m._normal_filter_count + 1]

\* C20: whenever a tile holds filter index _normal_filter_count + i after
\* the design passes, all unmasked elements of the tile equal one symbol,
\* the i-th palette symbol writeTables puts in the header.
C20_SympalConsistent ==
    /\ Designed(mono) => SympalConsistent(mono)
    /\ Designed(monoB) => SympalConsistent(monoB)

\* element (x, y) is coded: not masked, not in a masked tile, not in a
\* palette tile
Coded(m, x, y) ==
    /\ ~MonoMask(m, x, y)
    /\ getTile(m, x, y) < m._normal_filter_count

\* the elements of the plane
Plane(m) == (0..(m._params.size_x - 1)) \X (0..(m._params.size_y - 1))

\* the symbols are those of the coded elements, one for each
OnePerCoded(m, syms) ==
    /\ \A j \in 1..Len(syms) : Coded(m, syms[j].x, syms[j].y)
    /\ \A e \in Plane(m) :
          Coded(m, e[1], e[2]) =>
              Cardinality({j \in 1..Len(syms) :
                              syms[j].x = e[1] /\ syms[j].y = e[2]}) = 1

\* C21: for every element that is masked, lies in a MASK_TILE or lies in a
\* sympal tile, computeResiduals computes no residual and designChaos and
\* initializeEncoders add no symbol to any bin; every other element adds
\* exactly one symbol to exactly one bin.
C21_UncodedSkipped ==
    /\ mono.pc \in {"designChaos", "initializeEncoders", "encoded"} =>
          \A e \in Plane(mono) :
              ~Coded(mono, e[1], e[2]) =>
                  (e[1] + e[2] * mono._params.size_x) \notin mono.computed
    /\ mono.pc \in {"initializeEncoders", "encoded"} =>
          OnePerCoded(mono, chaosSymbols(mono, mono._chaos_levels))
    /\ mono.pc = "encoded" => OnePerCoded(mono, mono._encoder)

-----------------------------------------------------------------------------
(* MonoWriter: recursion on the filter plane                               *)

\* most tiles of a filter plane
MaxTiles == 8
\* largest entropy of the row filters or of the child
MaxEntropy == 4

RECURSIVE_THRESH == 4

\* MonoWriter::recurseCompress; recurse_entropy is what the call of the
\* child's process() yields (process has no return statement, the value is
\* whatever the register holds)
recurseCompress(m, recurse_entropy) ==
    IF m._tiles_count < RECURSIVE_THRESH THEN m
    ELSE IF recurse_entropy > m._row_filter_entropy
    THEN [m EXCEPT !._filter_encoder = 0, !.recurse_entropy = recurse_entropy]
    ELSE [m EXCEPT !._filter_encoder = 1, !.recurse_entropy = recurse_entropy]

\* a MonoWriter at the call of recurseCompress; _filter_encoder is 0 for
\* the null pointer
RecurseInit ==
    /\ \E tc \in 1..MaxTiles, re \in 0..MaxEntropy :
          mono = [pc |-> "recurseCompress", _tiles_count |-> tc,
                  _row_filter_entropy |-> re, _filter_encoder |-> 0,
                  recurse_entropy |-> -1]
    /\ monoB = Idle
    /\ DecIdle
    /\ LzIdle

RecurseCompress ==
    /\ mono.pc = "recurseCompress"
    /\ \E e \in 0..MaxEntropy :
          mono' = [recurseCompress(mono, e) EXCEPT !.pc = "designChaos"]
    /\ UNCHANGED <<monoB, dec, decB, input, stream, toggle, lz, lzin>>

SpecRecurse == RecurseInit /\ [][RecurseCompress]_vars

\* C22: recurseCompress keeps the child (_filter_encoder non-null) only if
\* tiles_count >= RECURSIVE_THRESH and the child's entropy is strictly
\* lower than _row_filter_entropy; on a tie or a worse result the child is
\* deleted.
C22_KeepsOnlyIfLower ==
    mono.pc = "designChaos" =>
        (mono._filter_encoder # 0 <=>
            /\ mono._tiles_count >= RECURSIVE_THRESH
            /\ mono.recurse_entropy < mono._row_filter_entropy)

-----------------------------------------------------------------------------
(* MonoWriter: the header                                                  *)

\* largest tile bits of a header
MaxBits == 4

\* BSR32(v): the index of the highest set bit of v > 0
RECURSIVE BSR32(_)
BSR32(v) == IF v <= 1 THEN 0 ELSE 1 + BSR32(v \div 2)

\* ImageWriter::writeBits(value, bits) of the u32 that the int v converts
\* to: the field holds the low bits of the value (2^bits divides 2^32, so
\* they are v modulo 2^bits); fits tells whether the whole value is below
\* 2^bits, which a negative v, wrapped to 2^32 + v, never is
writeBits(name, v, bits) ==
    [name |-> name, bits |-> bits, low |-> v % (2 ^ bits),
     fits |-> v >= 0 /\ v < 2 ^ bits]

\* MonoWriter::writeTables, the header fields up to the recursion bit
\* (912-971); the tables of the encoders are not part of the header fields
writeTables(m) ==
    LET range == m._params.max_bits - m._params.min_bits
        tile == IF range > 0
                THEN <<writeBits("tile_bits",
                                 m._tile_bits_x - m._params.max_bits,
                                 BSR32(range) + 1)>>
                ELSE <<>>
        normal == <<writeBits("normal_count", m._normal_filter_count - 1, 5)>>
                  \o [f \in 1..m._normal_filter_count |->
                        writeBits("filter_index", m._filter_indices[f], 7)]
        sympal == <<writeBits("sympal_count", m._sympal_filter_count - 1, 4)>>
                  \o [f \in 1..m._sympal_filter_count |->
                        writeBits("sympal", m._sympal[f], 8)]
        chaos == <<writeBits("chaos_levels", m._chaos_levels - 1, 4)>>
        recurse == <<writeBits("recurse", IF m._filter_encoder # 0 THEN 1 ELSE 0, 1)>>
    IN  [m EXCEPT !.out = tile \o normal \o sympal \o chaos \o recurse]

\* a MonoWriter at the call of writeTables, tile bits B chosen
TablesMono(lo, hi, B, nfc, sfc, K) ==
    [pc |-> "writeTables", _params |-> [min_bits |-> lo, max_bits |-> hi],
     _tile_bits_x |-> B, _tile_bits_y |-> B,
     _normal_filter_count |-> nfc,
     _filter_indices |-> [f \in 1..nfc |-> f - 1],
     _sympal_filter_count |-> sfc, _sympal |-> [f \in 1..sfc |-> f - 1],
     _chaos_levels |-> K, _filter_encoder |-> 0, out |-> <<>>]

TablesInit ==
    /\ \E lo \in 1..MaxBits, hi \in 1..MaxBits, B \in 1..MaxBits,
          nfc \in MF_FIXED..MF_COUNT, sfc \in 0..MaxSympal,
          K \in 1..(MAX_CHAOS_LEVELS - 1) :
          /\ lo <= B /\ B <= hi
          /\ mono = TablesMono(lo, hi, B, nfc, sfc, K)
    /\ monoB = Idle
    /\ DecIdle
    /\ LzIdle

WriteTables ==
    /\ mono.pc = "writeTables"
    /\ mono' = [writeTables(mono) EXCEPT !.pc = "written"]
    /\ UNCHANGED <<monoB, dec, decB, input, stream, toggle, lz, lzin>>

SpecTables == TablesInit /\ [][WriteTables]_vars

\* the header fields of a name, in order
Fields(m, name) == SelectSeq(m.out, LAMBDA fld : fld.name = name)

\* C23: the tile-size field has width ceil(log2(max_bits - min_bits + 1)),
\* is omitted when min_bits = max_bits, and carries the non-negative
\* offset of the chosen B from max_bits, a value of [0, max_bits - min_bits]
\* that fits the field.
C23_TileBitsField ==
    mono.pc = "written" =>
        LET range == mono._params.max_bits - mono._params.min_bits
            tile == Fields(mono, "tile_bits")
        IN  IF range = 0 THEN Len(tile) = 0
            ELSE /\ Len(tile) = 1
                 /\ tile[1].bits = CeilLog2(range + 1)
                 /\ tile[1].fits
                 /\ tile[1].low = mono._params.max_bits - mono._tile_bits_x

\* a count field of the header fits its width, decodes to the count and is
\* followed by as many ids as it decodes to
CountField(m, name, ids, bits, count) ==
    /\ Len(Fields(m, name)) = 1
    /\ Fields(m, name)[1].bits = bits
    /\ Fields(m, name)[1].fits
    /\ Fields(m, name)[1].low + 1 = count
    /\ ids # "" => Len(Fields(m, ids)) = Fields(m, name)[1].low + 1

\* C24: every count-minus-one field of the header is in range for its
\* width and decodes (value + 1) to the count: the normal filters in 5
\* bits, the sympal filters in 4 bits for every count of [0, MAX_PALETTE],
\* the chaos levels in 4 bits; as many ids follow as the count decodes to.
C24_CountFields ==
    mono.pc = "written" =>
        /\ CountField(mono, "normal_count", "filter_index", 5,
                      mono._normal_filter_count)
        /\ CountField(mono, "sympal_count", "sympal", 4,
                      mono._sympal_filter_count)
        /\ CountField(mono, "chaos_levels", "", 4, mono._chaos_levels)

-----------------------------------------------------------------------------
(* MonoWriter: the row filters of the filter plane                         *)

\* most tiles along a side of the grid handed to designRowFilters
MaxGrid == 2

MAX_ROW_PASSES == 4
RF_COUNT == 4

\* the byte at tile cursor idx: outside _tiles whatever memory holds
TileAt(m, idx) == IF idx \in DOMAIN m._tiles THEN m._tiles[idx] ELSE m.junk

\* v % n as C computes it on ints, truncating toward zero, stored in a u8
CodeOf(v, n) == IF v >= 0 THEN v % n ELSE (256 - ((-v) % n)) % 256

\* the tile loops of one pass of designRowFilters (623-693) from tile t of
\* the sweep on, the cursor being at m.p + t; st holds codes, the rows of
\* _tile_row_filters written, total_entropy, the tiles coded (seen) and
\* whether the cursor left _tiles (oob)
RECURSIVE rowPass(_, _, _)
rowPass(m, t, st) ==
    IF t >= m._tiles_x * m._tiles_y THEN st
    ELSE LET tx == t % m._tiles_x
             ty == t \div m._tiles_x
             at == m.p + t
             f == TileAt(m, at)
             a == IF tx > 0 THEN TileAt(m, at - 1) ELSE 0
             c == IF tx > 0 /\ ty > 0 THEN TileAt(m, at - m._tiles_x - 1) ELSE 0
             b == IF ty > 0 THEN TileAt(m, at - m._tiles_x) ELSE 0
             nf == m._filter_count
             row == <<f, CodeOf(f + nf - a, nf), CodeOf(f + nf - b, nf),
                      CodeOf(f + nf - c, nf)>>
             coded == IF f # MASK_TILE
                      THEN [st EXCEPT
                              !.codes = [i \in 1..RF_COUNT |->
                                           [@[i] EXCEPT ![tx + 1] = row[i]]],
                              !.seen = Append(@, [at |-> at, f |-> f, a |-> a,
                                                  b |-> b, c |-> c, codes |-> row])]
                      ELSE st
             read == [coded EXCEPT !.oob = @ \/ at \notin DOMAIN m._tiles]
             e == [i \in 1..RF_COUNT |-> EntropyOf(read.codes[i])]
             best_i == CHOOSE i \in 1..RF_COUNT :
                          \A h \in 1..RF_COUNT :
                              e[i] < e[h] \/ (e[i] = e[h] /\ i <= h)
             ended == IF tx = m._tiles_x - 1
                      THEN [read EXCEPT !._tile_row_filters[ty + 1] = best_i - 1,
                                        !.total_entropy = @ + e[best_i]]
                      ELSE read
         IN  rowPass(m, t + 1, ended)

\* one turn of while (passes < MAX_ROW_PASSES) (620-694); the cursor p is
\* set before the loop (609) and not between passes
designRowFiltersPass(m) ==
    IF m.passes >= MAX_ROW_PASSES
    THEN [m EXCEPT !._row_filter_entropy = m.total_entropy,
                   !.pc = "recurseCompress"]
    ELSE LET Swept(st) ==
                 IF st.oob /\ m.ub = "crash" THEN [m EXCEPT !.pc = "crash"]
                 ELSE [m EXCEPT !.codes = st.codes, !.seen = st.seen,
                                !._tile_row_filters = st._tile_row_filters,
                                !.total_entropy = st.total_entropy,
                                !.p = m.p + m._tiles_x * m._tiles_y,
                                !.passes = m.passes + 1]
         IN  Apply(Swept, rowPass(m, 0,
                 [codes |-> m.codes, seen |-> <<>>,
                  _tile_row_filters |-> m._tile_row_filters,
                  total_entropy |-> 0, oob |-> FALSE]))

\* a MonoWriter at the loop of designRowFilters (604-619): codes and
\* _tile_row_filters hold what their allocations left in them
RowsMono(tiles_x, tiles_y, tiles, nf, junk, ub) ==
    [pc |-> "designRowFilters", _tiles_x |-> tiles_x, _tiles_y |-> tiles_y,
     _tiles_count |-> tiles_x * tiles_y, _tiles |-> tiles,
     _filter_count |-> nf, junk |-> junk, ub |-> ub,
     p |-> 0, passes |-> 0,
     codes |-> [i \in 1..RF_COUNT |-> [tx \in 1..tiles_x |-> junk]],
     seen |-> <<>>,
     _tile_row_filters |-> [ty \in 1..tiles_y |-> junk],
     total_entropy |-> 0, _row_filter_entropy |-> 0]

RowsInputs(tiles_x, tiles_y) ==
    { RowsMono(tiles_x, tiles_y, tiles, nf, junk, ub) :
        tiles \in [0..(tiles_x * tiles_y - 1) -> {0, 1, MASK_TILE}],
        nf \in 2..3, junk \in {0, 1}, ub \in {"crash", "garbage"} }

RowsInit ==
    /\ \E tiles_x \in 1..MaxGrid, tiles_y \in 1..MaxGrid :
          mono \in RowsInputs(tiles_x, tiles_y)
    /\ monoB = Idle
    /\ DecIdle
    /\ LzIdle

DesignRowFiltersPass ==
    /\ mono.pc = "designRowFilters"
    /\ mono' = designRowFiltersPass(mono)
    /\ UNCHANGED <<monoB, dec, decB, input, stream, toggle, lz, lzin>>

SpecRows == RowsInit /\ [][DesignRowFiltersPass]_vars

\* C25: for every non-masked tile, also next to a MASK_TILE or to the edge
\* of the grid, each of the four row-filter codes lies in
\* [0, _filter_count) and adding the neighbour back modulo _filter_count
\* recovers the tile's filter index; the row filter stored per tile row
\* is in [0, 4).
C25_RowCodes ==
    mono.pc \in {"designRowFilters", "recurseCompress"} =>
        /\ \A j \in 1..Len(mono.seen) :
              LET s == mono.seen[j]
                  near == <<0, s.a, s.b, s.c>>
              IN  \A i \in 1..RF_COUNT :
                     /\ s.codes[i] \in 0..(mono._filter_count - 1)
                     /\ (s.codes[i] + near[i]) % mono._filter_count = s.f
        /\ mono.passes > 0 =>
              \A ty \in 1..mono._tiles_y : mono._tile_row_filters[ty] \in 0..3

\* C26: every pass of designTiles starts with the tile cursor at the first
\* tile of the grid, so that every tile it reads or writes has an index in
\* [0, tiles_count); no pass continues where the previous one ended.
C26_CursorAtFirstTile ==
    /\ mono.pc = "designTiles" => mono.p = 0
    /\ monoB.pc = "designTiles" => monoB.p = 0

====
